---- MODULE Spec2Model ----
(***************************************************************************)
(* Reverse-mode automatic differentiation engine of deeplib/tensor.py:     *)
(* the NoGrad switch, Tensor construction, the graph-building operators    *)
(* (__mul__, __getitem__, max, add) with their _backward closures,         *)
(* zero_grad and backward (build_topo + reversed execution).               *)
(* Arrays are integer-valued; a numpy array is a record                    *)
(*   [kind, shape, elems]  with elems a function from index tuples         *)
(* (0-based) to values.  kind distinguishes an ndarray from a numpy        *)
(* scalar (what ufuncs and reductions return for 0-d results) and from     *)
(* None.                                                                   *)
(***************************************************************************)
EXTENDS Integers, Sequences, FiniteSets, TLC

VARIABLES
    nodes,          \* every Tensor built so far, in construction order
    noGradEnabled,  \* NoGrad._enabled
    guards,         \* the NoGrad objects of the active scopes: their .prev
    scopeHist,      \* history: NoGrad._enabled as it was when each active scope was entered
    raised,         \* the exception the last call raised, or "none"
    last,           \* history: what the last call was, and what it ran
    passes,         \* history: number of backward() calls so far
    zeroed,         \* history: the tensor zero_grad() was last called on since the last
                    \* backward(), 0 if none
    mark            \* history: how many tensors there were at the last backward()

vars == <<nodes, noGradEnabled, guards, scopeHist, raised, last, passes, zeroed, mark>>

----------------------------------------------------------------------------
(* Bounds of the model *)

MaxNodes == 3
MaxPasses == 2
MaxDepth == 2
MaxSize == 2
MaxKeyLen == 2
MaxSeed == 1

----------------------------------------------------------------------------
(* The numpy array library, as far as the engine uses it *)

Max2(a, b) == IF a >= b THEN a ELSE b

RECURSIVE SeqMax(_)
SeqMax(s) == IF s = <<>> THEN 0 ELSE Max2(Head(s), SeqMax(Tail(s)))

RECURSIVE SumTo(_, _)
\* f[0] + ... + f[n-1]
SumTo(f, n) == IF n = 0 THEN 0 ELSE f[n - 1] + SumTo(f, n - 1)

\* all index tuples of an array of the given shape
Indices(shape) ==
    { s \in [1..Len(shape) -> 0..(SeqMax(shape) - 1)] :
        \A i \in 1..Len(shape) : s[i] < shape[i] }

None == [kind |-> "None", shape |-> <<>>, elems |-> <<>>]

\* np.array / np.zeros_like / np.ones_like always give an ndarray
NdArray(shape, f(_)) ==
    [kind |-> "ndarray", shape |-> shape, elems |-> [p \in Indices(shape) |-> f(p)]]

\* the result of a ufunc or a reduction: a numpy scalar when it is 0-d
NpResult(shape, f(_)) ==
    [kind |-> IF Len(shape) = 0 THEN "scalar" ELSE "ndarray",
     shape |-> shape, elems |-> [p \in Indices(shape) |-> f(p)]]

zeros_like(a) == LET z(p) == 0 IN NdArray(a.shape, z)
ones_like(a) == LET o(p) == 1 IN NdArray(a.shape, o)

\* NumPy broadcasting: trailing-dimension alignment, size-1 stretch
Pad(s, n) == [i \in 1..n |-> IF i <= n - Len(s) THEN 1 ELSE s[i - (n - Len(s))]]

Compatible(s1, s2) ==
    LET n == Max2(Len(s1), Len(s2))
    IN \A i \in 1..n :
          \/ Pad(s1, n)[i] = Pad(s2, n)[i]
          \/ Pad(s1, n)[i] = 1
          \/ Pad(s2, n)[i] = 1

BroadcastShape(s1, s2) ==
    LET n == Max2(Len(s1), Len(s2))
    IN [i \in 1..n |-> IF Pad(s1, n)[i] = 1 THEN Pad(s2, n)[i] ELSE Pad(s1, n)[i]]

\* the position of an operand of shape s that result position q reads
BIndex(q, s) ==
    [i \in 1..Len(s) |-> IF s[i] = 1 THEN 0 ELSE q[i + Len(q) - Len(s)]]

\* a * b, a + b, a == b on arrays of compatible shapes
MulArr(a, b) ==
    LET f(q) == a.elems[BIndex(q, a.shape)] * b.elems[BIndex(q, b.shape)]
    IN NpResult(BroadcastShape(a.shape, b.shape), f)

AddArr(a, b) ==
    LET f(q) == a.elems[BIndex(q, a.shape)] + b.elems[BIndex(q, b.shape)]
    IN NpResult(BroadcastShape(a.shape, b.shape), f)

EqArr(a, b) ==
    LET f(q) == IF a.elems[BIndex(q, a.shape)] = b.elems[BIndex(q, b.shape)] THEN 1 ELSE 0
    IN NpResult(BroadcastShape(a.shape, b.shape), f)

\* a.sum(axis=0)
SumAxis0(a) ==
    LET d == a.shape[1]
        f(p) == SumTo([j \in 0..(d - 1) |-> a.elems[<<j>> \o p]], d)
    IN NpResult(Tail(a.shape), f)

\* a.sum(axis=i, keepdims=True), i counted from 0
SumAxisKeep(a, i) ==
    LET d == a.shape[i + 1]
        f(p) == SumTo([j \in 0..(d - 1) |-> a.elems[[p EXCEPT ![i + 1] = j]]], d)
    IN NpResult([a.shape EXCEPT ![i + 1] = 1], f)

\* a += b: in place on an ndarray (the shape of a is kept, so b must broadcast
\* into it); a numpy scalar has no in-place add, Python rebinds a = a + b
IAddOk(a, b) ==
    /\ Compatible(a.shape, b.shape)
    /\ a.kind = "ndarray" => BroadcastShape(a.shape, b.shape) = a.shape

IAdd(a, b) ==
    IF a.kind = "ndarray"
    THEN LET f(p) == a.elems[p] + b.elems[BIndex(p, b.shape)] IN NdArray(a.shape, f)
    ELSE AddArr(a, b)

\* grad.fill(0): clears an ndarray in place; on a numpy scalar (immutable) the
\* method runs on a temporary 0-d copy and leaves the scalar as it is
Fill0(a) == IF a.kind = "ndarray" THEN zeros_like(a) ELSE a

SetMax(S) == CHOOSE x \in S : \A y \in S : x >= y

\* np.max(a, axis=dim, keepdims=keepdims); dim is <<>> for None, <<d>> for axis d
MaxShape(shape, dim, keepdims) ==
    IF dim = <<>>
    THEN IF keepdims THEN [i \in 1..Len(shape) |-> 1] ELSE <<>>
    ELSE IF keepdims THEN [shape EXCEPT ![dim[1] + 1] = 1]
         ELSE [i \in 1..(Len(shape) - 1) |-> IF i <= dim[1] THEN shape[i] ELSE shape[i + 1]]

\* the positions of a that output position q of the reduction is the maximum of
MaxSlice(shape, dim, keepdims, q) ==
    IF dim = <<>> THEN Indices(shape)
    ELSE { p \in Indices(shape) :
             \A i \in 1..Len(shape) :
                i # dim[1] + 1 =>
                   p[i] = q[IF keepdims \/ i <= dim[1] THEN i ELSE i - 1] }

MaxArr(a, dim, keepdims) ==
    LET f(q) == SetMax({ a.elems[p] : p \in MaxSlice(a.shape, dim, keepdims, q) })
    IN NpResult(MaxShape(a.shape, dim, keepdims), f)

\* a[key] for an index array key: selects along axis 0
TakeArr(a, key) ==
    LET f(q) == a.elems[<<key[q[1] + 1]>> \o Tail(q)]
    IN NdArray(<<Len(key)>> \o Tail(a.shape), f)

\* grad = zeros_like(a); grad[key] = g.  Where key names a position several
\* times, one of the values assigned to it remains; numpy fixes no order, the
\* rotation w selects which
Winner(key, k, w) ==
    LET J == { j \in 1..Len(key) : key[j] = k }
    IN CHOOSE j \in J : \A i \in J : (j + w) % Len(key) >= (i + w) % Len(key)

SetItem(a, key, g, w) ==
    LET f(p) == IF \E j \in 1..Len(key) : key[j] = p[1]
                THEN g.elems[<<Winner(key, p[1], w) - 1>> \o Tail(p)]
                ELSE 0
    IN NdArray(a.shape, f)

----------------------------------------------------------------------------
(* Tensor *)

\* the contents the input arrays are drawn from
Elem(seed, p) ==
    1 + ((seed + SumTo([i \in 0..(Len(p) - 1) |-> (i + 1) * p[i + 1]], Len(p))) % 3)

Data(shape, seed) == LET f(p) == Elem(seed, p) IN NdArray(shape, f)

\* np.array(data) when data is not an ndarray
AsArray(a) == [a EXCEPT !.kind = "ndarray"]

\* mutant: requires_grad is not masked by the switch
Tensor_unmasked(data, children, requires_grad, enabled) ==
    [data |-> AsArray(data),
     rg |-> requires_grad,
     grad |-> IF requires_grad THEN zeros_like(data) ELSE None,
     op |-> "leaf", self |-> 0, other |-> 0,
     dim |-> <<>>, keepdims |-> FALSE, key |-> <<>>,
     children |-> children]

\* Tensor.__init__: requires_grad is masked by the switch, grad is allocated
\* iff the tensor requires grad, _backward is the no-op until an operator sets it
Tensor(data, children, requires_grad, enabled) ==
    LET rg == requires_grad /\ ~enabled
    IN [data |-> AsArray(data),
        rg |-> rg,
        grad |-> IF rg THEN zeros_like(data) ELSE None,
        op |-> "leaf", self |-> 0, other |-> 0,
        dim |-> <<>>, keepdims |-> FALSE, key |-> <<>>,
        children |-> children]

\* out._backward = _backward, with what the closure captures
WithBackward(t, op, self, other, dim, keepdims, key) ==
    [t EXCEPT !.op = op, !.self = self, !.other = other,
              !.dim = dim, !.keepdims = keepdims, !.key = key]

\* the order a tensor's _children set is iterated in: a set of two tensors is
\* iterated in either order (flip), fixed per set
TwoChildren(ns) == { v \in 1..Len(ns) : Cardinality(ns[v].children) = 2 }

ChildOrder(ns, v, flip) ==
    LET c == ns[v].children
    IN IF c = {} THEN <<>>
       ELSE IF Cardinality(c) = 1 THEN <<CHOOSE x \in c : TRUE>>
       ELSE IF flip[v] THEN <<ns[v].other, ns[v].self>>
       ELSE <<ns[v].self, ns[v].other>>

----------------------------------------------------------------------------
(* The _backward closures.  Each takes the nodes and the node o it belongs  *)
(* to and gives [ns, err, adds]: the nodes afterwards, the exception it     *)
(* raised ("none" if it returned), and what it added to which operand.      *)

Returned(ns, adds) == [ns |-> ns, err |-> "none", adds |-> adds]
Raised(ns, err) == [ns |-> ns, err |-> err, adds |-> <<>>]

RECURSIVE sum_leading(_, _)
\* while grad.ndim > nd: grad = grad.sum(axis=0)
sum_leading(g, nd) == IF Len(g.shape) > nd THEN sum_leading(SumAxis0(g), nd) ELSE g

RECURSIVE sum_ones(_, _, _)
\* for i, dim in enumerate(shape): if dim == 1: grad = grad.sum(axis=i, keepdims=True)
sum_ones(g, shape, i) ==
    IF i >= Len(shape) THEN g
    ELSE sum_ones(IF shape[i + 1] = 1 THEN SumAxisKeep(g, i) ELSE g, shape, i + 1)

\* mutant: the leading dimensions are summed, the size-1 dimensions are not
unbroadcast_leading_only(g, shape) == sum_leading(g, Len(shape))

\* the reduction of an incoming gradient g to an operand whose grad has `shape`
unbroadcast(g, shape) == sum_ones(sum_leading(g, Len(shape)), shape, 0)

\* one operand's half of __mul__'s _backward: x the operand, y the other one
mul_half(ns, o, x, y) ==
    IF ~ns[x].rg THEN Returned(ns, <<>>)
    ELSE IF ns[o].grad.kind = "None" THEN Raised(ns, "TypeError")
    ELSE LET added(g, now) ==
                 Returned([ns EXCEPT ![x].grad = now],
                          <<[to |-> x, factor |-> ns[y].data, incoming |-> ns[o].grad,
                             buf |-> g, was |-> ns[x].grad, now |-> now]>>)
             reduced(g) == added(g, AddArr(ns[x].grad, g))
         IN reduced(unbroadcast(MulArr(ns[y].data, ns[o].grad), ns[x].grad.shape))

\* __mul__'s _backward: self's half, then other's on the nodes self's half left
mul_backward(ns, o) ==
    LET then_other(r1) ==
            IF r1.err # "none" THEN r1
            ELSE [mul_half(r1.ns, o, ns[o].other, ns[o].self) EXCEPT !.adds = r1.adds \o @]
    IN then_other(mul_half(ns, o, ns[o].self, ns[o].other))

\* add's _backward: dA += dOut reduced to A, dB += dOut reduced to B; a no-op
\* for a node that does not require grad
add_half(ns, o, x) ==
    IF ~ns[x].rg THEN Returned(ns, <<>>)
    ELSE LET added(g, now) ==
                 Returned([ns EXCEPT ![x].grad = now],
                          <<[to |-> x, factor |-> ones_like(ns[o].data),
                             incoming |-> ns[o].grad, buf |-> g,
                             was |-> ns[x].grad, now |-> now]>>)
             reduced(g) == added(g, IAdd(ns[x].grad, g))
         IN reduced(unbroadcast(ns[o].grad, ns[x].grad.shape))

add_backward(ns, o) ==
    IF ~ns[o].rg THEN Returned(ns, <<>>)
    ELSE LET then_other(r1) == [add_half(r1.ns, o, ns[o].other) EXCEPT !.adds = r1.adds \o @]
         IN then_other(add_half(ns, o, ns[o].self))

\* max's _backward: self.grad += out.grad * (self.data == out.data)
max_backward(ns, o) ==
    LET x == ns[o].self
        added(g, now) ==
            Returned([ns EXCEPT ![x].grad = now],
                     <<[to |-> x, factor |-> ns[x].data, incoming |-> ns[o].grad,
                        buf |-> g, was |-> ns[x].grad, now |-> now]>>)
        routed(g) ==
            IF ~IAddOk(ns[x].grad, g) THEN Raised(ns, "ValueError")
            ELSE added(g, IAdd(ns[x].grad, g))
    IN IF ~ns[x].rg THEN Returned(ns, <<>>)
       ELSE IF ns[o].grad.kind = "None" THEN Raised(ns, "TypeError")
       ELSE IF ~Compatible(ns[x].data.shape, ns[o].data.shape) THEN Raised(ns, "ValueError")
       ELSE routed(MulArr(ns[o].grad, EqArr(ns[x].data, ns[o].data)))

\* __getitem__'s _backward: grad = zeros; grad[key] = out.grad; self.grad += grad
getitem_backward(ns, o, w) ==
    LET x == ns[o].self
        added(g, now) ==
            Returned([ns EXCEPT ![x].grad = now],
                     <<[to |-> x, factor |-> ns[x].data, incoming |-> ns[o].grad,
                        buf |-> g, was |-> ns[x].grad, now |-> now]>>)
        scattered(g) == added(g, IAdd(ns[x].grad, g))
    IN IF ~ns[x].rg THEN Returned(ns, <<>>)
       ELSE scattered(SetItem(ns[x].data, ns[o].key, ns[o].grad, w))

\* node._backward()
local_backward(ns, o, w) ==
    CASE ns[o].op = "mul" -> mul_backward(ns, o)
      [] ns[o].op = "add" -> add_backward(ns, o)
      [] ns[o].op = "max" -> max_backward(ns, o)
      [] ns[o].op = "getitem" -> getitem_backward(ns, o, w)
      [] OTHER -> Returned(ns, <<>>)

----------------------------------------------------------------------------
(* Tensor.backward *)

RECURSIVE build_topo(_, _, _, _)
\* st = [topo, visited]
build_topo(ns, v, st, flip) ==
    IF v \in st.visited THEN st
    ELSE LET second(ch, st2) == IF Len(ch) >= 2 THEN build_topo(ns, ch[2], st2, flip) ELSE st2
             first(ch, st1) == IF Len(ch) >= 1 THEN build_topo(ns, ch[1], st1, flip) ELSE st1
             children(ch) == second(ch, first(ch, [st EXCEPT !.visited = @ \cup {v}]))
         IN [children(ChildOrder(ns, v, flip)) EXCEPT !.topo = Append(@, v)]

RECURSIVE run_reversed(_, _, _, _, _)
\* for node in reversed(topo): node._backward(); an exception ends the loop
run_reversed(ns, topo, i, log, w) ==
    IF i = 0 THEN [ns |-> ns, err |-> "none", topo |-> topo, log |-> log]
    ELSE LET logged(r, entries) ==
                 IF r.err # "none"
                 THEN [ns |-> r.ns, err |-> r.err, topo |-> topo, log |-> entries]
                 ELSE run_reversed(r.ns, topo, i - 1, entries, w)
             called(r) ==
                 logged(r, Append(log, [node |-> topo[i], ok |-> r.err = "none",
                                        adds |-> r.adds]))
         IN called(local_backward(ns, topo[i], w))

\* the pass on a root that requires grad: seed, order, run
run_pass(ns, root, flip, w) ==
    LET ordered(seeded, topo) == run_reversed(seeded, topo, Len(topo), <<>>, w)
        built(seeded) ==
            ordered(seeded, build_topo(seeded, root, [topo |-> <<>>, visited |-> {}], flip).topo)
    IN built([ns EXCEPT ![root].grad = ones_like(ns[root].data)])

\* mutant: the root's grad is seeded before requires_grad is looked at
backward_seeds_first(ns, root, flip, w) ==
    IF ~ns[root].rg
    THEN [ns |-> [ns EXCEPT ![root].grad = ones_like(ns[root].data)],
          err |-> "RuntimeError", topo |-> <<>>, log |-> <<>>]
    ELSE run_pass(ns, root, flip, w)

backward(ns, root, flip, w) ==
    IF ~ns[root].rg
    THEN [ns |-> ns, err |-> "RuntimeError", topo |-> <<>>, log |-> <<>>]
    ELSE run_pass(ns, root, flip, w)

\* Tensor.zero_grad
zero_grad(t) == IF t.grad.kind # "None" THEN [t EXCEPT !.grad = Fill0(@)] ELSE t

----------------------------------------------------------------------------
(* The operators: each gives the Tensor it builds *)

\* Tensor.__mul__ on two tensors
mul(ns, i, j, enabled) ==
    WithBackward(Tensor(MulArr(ns[i].data, ns[j].data), {i, j},
                        ns[i].rg \/ ns[j].rg, enabled),
                 "mul", i, j, <<>>, FALSE, <<>>)

\* add
add(ns, i, j, enabled) ==
    WithBackward(Tensor(AddArr(ns[i].data, ns[j].data), {i, j},
                        (ns[i].rg \/ ns[j].rg), enabled),
                 "add", i, j, <<>>, FALSE, <<>>)

\* Tensor.max
max(ns, i, dim, keepdims, enabled) ==
    WithBackward(Tensor(MaxArr(ns[i].data, dim, keepdims), {i}, ns[i].rg, enabled),
                 "max", i, 0, dim, keepdims, <<>>)

\* Tensor.__getitem__ with an index array
getitem(ns, i, key, enabled) ==
    WithBackward(Tensor(TakeArr(ns[i].data, key), {i}, ns[i].rg, enabled),
                 "getitem", i, 0, <<>>, FALSE, key)

\* NoGrad.__enter__ on a new NoGrad object: the object, and the switch afterwards
NoGrad_enter(enabled) == [guard |-> [prev |-> enabled], enabled |-> TRUE]

\* mutant: leaving a scope enables tracking again, whatever was saved
NoGrad_exit_enables(guard) == FALSE

\* NoGrad.__exit__: the switch afterwards
NoGrad_exit(guard) == guard.prev

----------------------------------------------------------------------------
(* Actions *)

Call(op) == [op |-> op, root |-> 0, flip |-> <<>>, w |-> 0,
             topo |-> <<>>, log |-> <<>>, zeroed |-> 0, mark |-> 0]

Built(t) ==
    /\ nodes' = Append(nodes, t)
    /\ raised' = "none"
    /\ last' = Call("build")
    /\ UNCHANGED <<noGradEnabled, guards, scopeHist, passes, zeroed, mark>>

Failed(err) ==
    /\ raised' = err
    /\ last' = Call("build")
    /\ UNCHANGED <<nodes, noGradEnabled, guards, scopeHist, passes, zeroed, mark>>

\* Tensor(data, requires_grad=rg)
NewTensor(shape, seed, rg) ==
    Built(Tensor(Data(shape, seed), {}, rg, noGradEnabled))

\* nodes[i] * nodes[j]
Mul(i, j) ==
    IF Compatible(nodes[i].data.shape, nodes[j].data.shape)
    THEN Built(mul(nodes, i, j, noGradEnabled))
    ELSE Failed("ValueError")

\* nodes[i] + nodes[j]
Add(i, j) ==
    IF Compatible(nodes[i].data.shape, nodes[j].data.shape)
    THEN Built(add(nodes, i, j, noGradEnabled))
    ELSE Failed("ValueError")

\* nodes[i].max(dim, keepdims)
MaxOp(i, dim, keepdims) ==
    /\ dim # <<>> => dim[1] < Len(nodes[i].data.shape)
    /\ Built(max(nodes, i, dim, keepdims, noGradEnabled))

\* nodes[i][key]
GetItem(i, key) ==
    /\ Len(nodes[i].data.shape) >= 1
    /\ \A k \in 1..Len(key) : key[k] < nodes[i].data.shape[1]
    /\ Built(getitem(nodes, i, key, noGradEnabled))

\* with no_grad(): ...   entering
Enter ==
    /\ Len(guards) < MaxDepth
    /\ guards' = Append(guards, NoGrad_enter(noGradEnabled).guard)
    /\ noGradEnabled' = NoGrad_enter(noGradEnabled).enabled
    /\ scopeHist' = Append(scopeHist, noGradEnabled)
    /\ raised' = "none"
    /\ last' = Call("enter")
    /\ UNCHANGED <<nodes, passes, zeroed, mark>>

\* leaving the innermost scope
Exit ==
    /\ guards # <<>>
    /\ noGradEnabled' = NoGrad_exit(guards[Len(guards)])
    /\ guards' = SubSeq(guards, 1, Len(guards) - 1)
    /\ scopeHist' = SubSeq(scopeHist, 1, Len(scopeHist) - 1)
    /\ raised' = "none"
    /\ last' = Call("exit")
    /\ UNCHANGED <<nodes, passes, zeroed, mark>>

\* nodes[i].zero_grad()
ZeroGrad(i) ==
    /\ nodes' = [nodes EXCEPT ![i] = zero_grad(@)]
    /\ zeroed' = i
    /\ raised' = "none"
    /\ last' = Call("zero_grad")
    /\ UNCHANGED <<noGradEnabled, guards, scopeHist, passes, mark>>

\* nodes[root].backward()
Backward(root, flip, w) ==
    /\ \E r \in {backward(nodes, root, flip, w)} :
          /\ nodes' = r.ns
          /\ raised' = r.err
          /\ last' = [op |-> "backward", root |-> root, flip |-> flip, w |-> w,
                      topo |-> r.topo, log |-> r.log, zeroed |-> zeroed, mark |-> mark]
          /\ zeroed' = IF r.err = "RuntimeError" THEN zeroed ELSE 0
          /\ mark' = IF r.err = "RuntimeError" THEN mark ELSE Len(nodes)
    /\ passes' = passes + 1
    /\ UNCHANGED <<noGradEnabled, guards, scopeHist>>

Ids == 1..Len(nodes)
Flips == [TwoChildren(nodes) -> BOOLEAN]

----------------------------------------------------------------------------
(* Spec: graphs of scalar and one-element tensors, built inside and outside *)
(* no-grad scopes                                                           *)

GraphShapes == {<<>>, <<1>>}
\* the values play no part in what the engine does; each leaf gets its own
GraphSeeds == {Len(nodes) + 1}

Init ==
    /\ nodes = <<>>
    /\ noGradEnabled = FALSE
    /\ guards = <<>>
    /\ scopeHist = <<>>
    /\ raised = "none"
    /\ last = Call("init")
    /\ passes = 0
    /\ zeroed = 0
    /\ mark = 0

Room == Len(nodes) < MaxNodes

Next ==
    \/ Room /\ \E shape \in GraphShapes, seed \in GraphSeeds, rg \in BOOLEAN :
                  NewTensor(shape, seed, rg)
    \/ Room /\ \E i \in Ids, j \in Ids : Mul(i, j)
    \/ Enter
    \/ Exit
    \/ \E i \in Ids : ZeroGrad(i)
    \/ passes < MaxPasses /\ \E root \in Ids, flip \in Flips : Backward(root, flip, 0)

Spec == Init /\ [][Next]_vars

----------------------------------------------------------------------------
(* What the claims speak of *)

RECURSIVE Reach(_, _)
\* the tensors reachable from v over _children, v included
Reach(ns, v) == {v} \cup UNION { Reach(ns, c) : c \in ns[v].children }

\* a pass over a root that requires grad has just ended (returned or raised)
PassEnded == last.op = "backward" /\ nodes[last.root].rg

LogNodes == { last.log[k].node : k \in 1..Len(last.log) }

\* the grads of a freshly constructed graph
Fresh(ns) ==
    [v \in 1..Len(ns) |->
        IF ns[v].rg THEN [ns[v] EXCEPT !.grad = zeros_like(ns[v].data)] ELSE ns[v]]

----------------------------------------------------------------------------
(* Claims checked under Spec *)

\* C1: one backward() on a root that requires grad runs the _backward of each
\* tensor reachable from the root exactly once, and runs it only after the
\* _backward of every reachable tensor that has it among its _children.
C1_EachOnceAfterConsumers ==
    PassEnded =>
        /\ LogNodes = Reach(nodes, last.root)
        /\ \A k \in 1..Len(last.log) : last.log[k].ok
        /\ \A k, m \in 1..Len(last.log) :
              /\ last.log[k].node = last.log[m].node => k = m
              /\ last.log[k].node \in nodes[last.log[m].node].children => m < k

\* on the passes that return, the order is as stated: what breaks it is a
\* _backward that raises
ReturnedPassVisitsOnce == raised = "none" => C1_EachOnceAfterConsumers

\* C3: gradient tracking is disabled whenever a no-grad scope is active, and
\* when the outermost scope exits the switch is back at the value it had before
\* that scope was entered.
C3_NestedScopes ==
    /\ [](guards # <<>> => noGradEnabled)
    /\ [][(guards # <<>> /\ guards' = <<>>) => noGradEnabled' = scopeHist[1]]_vars

\* two scopes were entered and the inner one has been left
C3_InnerLeft == last.op = "exit" /\ Len(guards) = 1 /\ noGradEnabled

\* C4: backward() on a tensor that does not require grad raises and does
\* nothing else: nothing is traversed, no _backward runs, no grad changes.
C4_RefusedBackwardIsInert ==
    [][(last'.op = "backward" /\ ~nodes[last'.root].rg) =>
          /\ raised' = "RuntimeError"
          /\ nodes' = nodes
          /\ last'.topo = <<>>
          /\ last'.log = <<>>]_vars

C4_Refused ==
    /\ last.op = "backward"
    /\ ~nodes[last.root].rg
    /\ raised = "RuntimeError"
    /\ nodes[last.root].op = "mul"

\* C5: a tensor's grad is None exactly when it does not require grad, and a
\* tensor built by an operator requires grad iff one of its operands does and
\* tracking was enabled when it was built.
C5_GradIffRequiresGrad ==
    /\ [](\A v \in Ids : (nodes[v].grad.kind = "None") <=> ~nodes[v].rg)
    /\ [][Len(nodes') = Len(nodes) + 1 /\ nodes'[Len(nodes')].op # "leaf" =>
             nodes'[Len(nodes')].rg =
                ((\E c \in nodes'[Len(nodes')].children : nodes[c].rg) /\ ~noGradEnabled)]_vars

\* an operator's result built inside a scope from an operand that requires
\* grad, after a zero_grad and a backward
C5_MaskedResult ==
    /\ passes > 0
    /\ zeroed # 0
    /\ \E v \in Ids : nodes[v].op = "mul" /\ ~nodes[v].rg /\ nodes[nodes[v].self].rg

\* C7: after zero_grad() on a tensor, backward() on a root built over it along
\* tensors that were in no earlier pass leaves in its grad what the same
\* backward() gives on a freshly constructed graph.
C7_ZeroGradThenFresh ==
    (/\ PassEnded
     /\ last.zeroed # 0
     /\ last.zeroed \in Reach(nodes, last.root)
     /\ \A v \in Reach(nodes, last.root) :
           (v # last.zeroed /\ last.zeroed \in Reach(nodes, v)) => v > last.mark)
    => nodes[last.zeroed].grad.elems =
          backward(Fresh(nodes), last.root, last.flip, last.w).ns[last.zeroed].grad.elems

\* C8: the _backward of a tensor that does not require grad is a no-op, so a
\* pass over a root that requires grad returns, and such a tensor adds nothing.
C8_NoGradNodesAreInert ==
    PassEnded =>
        /\ raised = "none"
        /\ \A k \in 1..Len(last.log) :
              ~nodes[last.log[k].node].rg => last.log[k].adds = <<>>

----------------------------------------------------------------------------
(* SpecShared: one backward pass over graphs of products and sums that      *)
(* share operands, built from one or two leaves inside and outside no-grad scopes  *)

InitShared ==
    /\ \E sa \in GraphShapes, rb \in BOOLEAN, n \in 1..2 :
          nodes = SubSeq(<<Tensor(Data(sa, 1), {}, TRUE, FALSE),
                           Tensor(Data(sa, 2), {}, rb, FALSE)>>, 1, n)
    /\ noGradEnabled = FALSE
    /\ guards = <<>>
    /\ scopeHist = <<>>
    /\ raised = "none"
    /\ last = Call("init")
    /\ passes = 0
    /\ zeroed = 0
    /\ mark = 0

RoomShared == Len(nodes) < MaxNodes + 1

NextShared ==
    \/ RoomShared /\ \E i \in Ids, j \in Ids : Mul(i, j)
    \/ RoomShared /\ \E i \in Ids, j \in Ids : Add(i, j)
    \/ guards = <<>> /\ Enter
    \/ Exit
    \/ passes = 0 /\ \E root \in Ids, flip \in Flips : Backward(root, flip, 0)

SpecShared == InitShared /\ [][NextShared]_vars

\* the value of a one-element array
Val(a) == a.elems[[i \in 1..Len(a.shape) |-> 0]]

\* how many operand slots of the tensors reachable from root hold t
Uses(ns, root, t) ==
    Cardinality({ c \in Reach(ns, root) : ns[c].op # "leaf" /\ ns[c].self = t })
    + Cardinality({ c \in Reach(ns, root) : ns[c].op # "leaf" /\ ns[c].other = t })

\* d c / d (operand slot) for a one-element product or sum
PartialSelf(ns, c) == IF ns[c].op = "mul" THEN Val(ns[ns[c].other].data) ELSE 1
PartialOther(ns, c) == IF ns[c].op = "mul" THEN Val(ns[ns[c].self].data) ELSE 1

RECURSIVE TotalDerivative(_, _, _)
\* d root / d t in closed form: over every consumer c of t that is
\* differentiable, (d c / d t) * (d root / d c), each operand slot counted
TotalDerivative(ns, root, t) ==
    IF t = root THEN 1
    ELSE SumTo([k \in 0..(root - t - 1) |->
                  LET c == t + 1 + k
                  IN IF ns[c].op = "leaf" \/ ~ns[c].rg THEN 0
                     ELSE ((IF ns[c].self = t THEN PartialSelf(ns, c) ELSE 0)
                           + (IF ns[c].other = t THEN PartialOther(ns, c) ELSE 0))
                          * TotalDerivative(ns, root, c)],
               root - t)

\* C2: after backward() on a root over freshly built tensors, the grad of a
\* tensor that requires grad and is consumed more than once (by several
\* tensors of the graph, or as both operands of one) is the sum of the
\* contributions of all its consumers, the closed-form total derivative.
C2_SharedOperandSums ==
    PassEnded =>
        \A t \in Reach(nodes, last.root) :
            (nodes[t].rg /\ Uses(nodes, last.root, t) >= 2) =>
                Val(nodes[t].grad) = TotalDerivative(nodes, last.root, t)

\* on the passes that return, the shared operand's grad is the total derivative
ReturnedPassSums == raised = "none" => C2_SharedOperandSums

----------------------------------------------------------------------------
(* SpecBroadcast: a product or sum of two leaves of every pair of shapes,   *)
(* then backward                                                            *)

RECURSIVE SumOver(_, _)
\* the sum of f over the set S
SumOver(S, f) ==
    IF S = {} THEN 0
    ELSE LET x == CHOOSE y \in S : TRUE IN f[x] + SumOver(S \ {x}, f)

\* the shapes of up to two dimensions; the pairs of them, and the pair of the
\* documented example
Shapes ==
    {<<>>} \cup { <<m>> : m \in 1..MaxSize }
           \cup { <<m, n>> : m \in 1..MaxSize, n \in 1..MaxSize }

ShapePairs == (Shapes \X Shapes) \cup {<< <<3, 1>>, <<3, 4>> >>}

Quiet ==
    /\ noGradEnabled = FALSE
    /\ guards = <<>>
    /\ scopeHist = <<>>
    /\ raised = "none"
    /\ last = Call("init")
    /\ passes = 0
    /\ zeroed = 0
    /\ mark = 0

InitBroadcast ==
    /\ \E ss \in ShapePairs, seed \in 0..MaxSeed, rb \in BOOLEAN :
          nodes = <<Tensor(Data(ss[1], seed), {}, TRUE, FALSE),
                    Tensor(Data(ss[2], seed + 1), {}, rb, FALSE)>>
    /\ Quiet

\* after the first operator, the square of its result may follow, so that the
\* gradient that reaches the first is not all ones
NextBroadcast ==
    \/ Len(nodes) = 2 /\ \E i \in Ids, j \in Ids : Mul(i, j)
    \/ Len(nodes) = 2 /\ \E i \in Ids, j \in Ids : Add(i, j)
    \/ Len(nodes) = 3 /\ Mul(3, 3)
    \/ passes = 0 /\ \E root \in Ids, flip \in Flips : Backward(root, flip, 0)

SpecBroadcast == InitBroadcast /\ [][NextBroadcast]_vars

\* the operand of shape s was expanded to the result's shape r
Expanded(s, r) ==
    \/ Len(s) < Len(r)
    \/ \E i \in 1..Len(s) : s[i] = 1 /\ r[i + Len(r) - Len(s)] > 1

\* what the _backward calls of the products and sums of the last pass added
BinaryAdds ==
    { a \in UNION { { last.log[k].adds[m] : m \in 1..Len(last.log[k].adds) } :
                      k \in { k \in 1..Len(last.log) :
                                nodes[last.log[k].node].op \in {"mul", "add"} } } :
        Expanded(nodes[a.to].data.shape, a.incoming.shape) }

\* C6: for a product or sum whose operand was expanded by broadcasting,
\* backward adds to the operand's grad a buffer of the operand's shape, each
\* entry the sum of the incoming contributions over the result positions the
\* entry was broadcast to; the operand's grad keeps the shape of its data.
C6_BroadcastReduced ==
    /\ \A v \in Ids : nodes[v].rg => nodes[v].grad.shape = nodes[v].data.shape
    /\ \A a \in BinaryAdds :
          LET s == nodes[a.to].data.shape
              r == a.incoming.shape
              contribution == [q \in Indices(r) |->
                                 a.factor.elems[BIndex(q, a.factor.shape)] * a.incoming.elems[q]]
          IN /\ a.buf.shape = s
             /\ a.was.shape = s
             /\ a.now.shape = s
             /\ \A p \in Indices(s) :
                   /\ a.buf.elems[p] =
                         SumOver({ q \in Indices(r) : BIndex(q, s) = p }, contribution)
                   /\ a.now.elems[p] = a.was.elems[p] + a.buf.elems[p]

\* a of shape (3,1) plus b of shape (3,4), backward on the sum: a.grad is
\* all 4 with shape (3,1), b.grad all ones
C6_DocumentedExample ==
    /\ PassEnded
    /\ last.root = 3
    /\ nodes[3].op = "add" /\ nodes[3].self = 1 /\ nodes[3].other = 2
    /\ nodes[1].data.shape = <<3, 1>>
    /\ nodes[2].data.shape = <<3, 4>>
    /\ nodes[2].rg
    /\ nodes[1].grad.shape = <<3, 1>>
    /\ \A p \in Indices(<<3, 1>>) : nodes[1].grad.elems[p] = 4
    /\ \A p \in Indices(<<3, 4>>) : nodes[2].grad.elems[p] = 1

\* the same shapes under the product
C6_ExpandedProduct ==
    /\ PassEnded
    /\ \E a \in BinaryAdds :
          /\ nodes[last.root].op = "mul"
          /\ nodes[a.to].data.shape = <<3, 1>>
          /\ a.incoming.shape = <<3, 4>>

----------------------------------------------------------------------------
(* SpecMax: max over every axis of a two-dimensional leaf, then backward    *)

Matrices == { <<m, n>> : m \in 1..MaxSize, n \in 1..MaxSize }

Dims == {<<>>, <<0>>, <<1>>}

InitMax ==
    /\ \E sa \in Matrices, seed \in 0..MaxSeed :
          nodes = <<Tensor(Data(sa, seed), {}, TRUE, FALSE)>>
    /\ Quiet

NextMax ==
    \/ Len(nodes) = 1 /\ \E dim \in Dims, keepdims \in BOOLEAN : MaxOp(1, dim, keepdims)
    \/ Len(nodes) = 2 /\ \E j \in Ids : Mul(2, j)
    \/ passes = 0 /\ \E root \in Ids, flip \in Flips : Backward(root, flip, 0)

SpecMax == InitMax /\ [][NextMax]_vars

\* the output position of the reduction slice that position p lies in
OutIndex(p, dim, keepdims) ==
    IF dim = <<>>
    THEN IF keepdims THEN [i \in 1..Len(p) |-> 0] ELSE <<>>
    ELSE IF keepdims THEN [p EXCEPT ![dim[1] + 1] = 0]
         ELSE [i \in 1..(Len(p) - 1) |-> IF i <= dim[1] THEN p[i] ELSE p[i + 1]]

\* the entries of the last pass's log that belong to nodes built by op
LogOf(op) == { k \in 1..Len(last.log) : nodes[last.log[k].node].op = op }

\* C9: for out = A.max(dim, keepdims), every dim and both keepdims, backward
\* adds to A.grad at p the incoming gradient of the output element of p's own
\* slice where A[p] is that slice's maximum, and zero elsewhere.
C9_MaxRoutesToMaxima ==
    PassEnded =>
        \A k \in LogOf("max") :
            LET o == nodes[last.log[k].node]
                A == nodes[o.self].data
                out(p) == OutIndex(p, o.dim, o.keepdims)
                isMax(p) == \A q \in Indices(A.shape) :
                               out(q) = out(p) => A.elems[q] <= A.elems[p]
            IN /\ last.log[k].ok
               /\ Len(last.log[k].adds) = 1
               /\ \A p \in Indices(A.shape) :
                     last.log[k].adds[1].now.elems[p] - last.log[k].adds[1].was.elems[p]
                        = IF isMax(p) THEN last.log[k].adds[1].incoming.elems[out(p)] ELSE 0

----------------------------------------------------------------------------
(* SpecIndex: A[key] for every index array key, then backward               *)

Vectors == { <<m>> : m \in 1..MaxSize }

Keys == UNION { [1..n -> 0..(MaxSize - 1)] : n \in 1..MaxKeyLen }

InitIndex ==
    /\ \E sa \in Vectors \cup Matrices, seed \in 0..MaxSeed :
          nodes = <<Tensor(Data(sa, seed), {}, TRUE, FALSE)>>
    /\ Quiet

NextIndex ==
    \/ Len(nodes) = 1 /\ \E key \in Keys : GetItem(1, key)
    \/ Len(nodes) = 2 /\ \E j \in Ids : Mul(2, j)
    \/ passes = 0 /\ \E root \in Ids, flip \in Flips, w \in 0..(MaxKeyLen - 1) :
                        Backward(root, flip, w)

SpecIndex == InitIndex /\ [][NextIndex]_vars

\* C10: for out = A[key] with an index array that selects a position more
\* than once, backward adds to A.grad at each position the sum of out.grad
\* over all output elements read from it, and zero at unselected positions.
C10_DuplicatesAccumulate ==
    PassEnded =>
        \A k \in LogOf("getitem") :
            LET o == nodes[last.log[k].node]
                A == nodes[o.self].data
                a == last.log[k].adds[1]
            IN (\E i, j \in 1..Len(o.key) : i # j /\ o.key[i] = o.key[j]) =>
                  \A p \in Indices(A.shape) :
                      a.now.elems[p] - a.was.elems[p] =
                         SumOver({ j \in 1..Len(o.key) : o.key[j] = p[1] },
                                 [j \in 1..Len(o.key) |-> a.incoming.elems[<<j - 1>> \o Tail(p)]])

====
